---- MODULE Spec2Model ----
(***************************************************************************)
(* Model of lesiw.io/command: the pipeline copy engine (Copy), the filter  *)
(* adapter (NewFilter), the error aggregate (copyError), ReadAll, and the  *)
(* container machines of package ctr (Ctl and Machine).                    *)
(*                                                                         *)
(* Streams are numbered 0..N+1: 0 is the source, 1..N are the filters and  *)
(* N+1 is the destination.  Stage s (the code's i+1) copies stream s into  *)
(* stream s+1.  An error value is the sequence of its leaf errors; the     *)
(* empty sequence is nil.                                                  *)
(***************************************************************************)
EXTENDS Integers, Sequences, FiniteSets, TLC

\* Bounds of the model.
MaxFilters == 2
MaxSrcLen == 2
MaxFaults == 2
MaxReadAllFilters == 1
MaxProcs == 2
MaxOps == 3
MaxOutLen == 2

\* The kinds of intermediate stage:
\*   pipe     struct{io.Reader; io.Writer; io.Closer} around a pipe-like
\*            connection (a write blocks until it is read, Close gives EOF)
\*   wfilter  NewFilter around a command handle with a writable input
\*   rofilter NewFilter around a read-only command handle
\*   plain    a named io.ReadWriter without Close whose two sides are not
\*            connected (writes are discarded, reads report end of data)
Kinds == {"pipe", "wfilter", "rofilter", "plain"}
PipeLike == {"pipe", "wfilter"}

VARIABLES
    fil,          \* fil[f]: kind of filter f, f \in 1..N
    srcWT,        \* the source implements io.WriterTo
    srcPos,       \* bytes the source has given so far (byte k is the number k)
    dstCloser,    \* "yes"/"no" once Copy has asked whether the destination
                  \* is an io.Closer, "?" before
    dstBuf,       \* bytes received by the destination
    dstCloses,    \* number of Close calls on the destination
    wclosed,      \* wclosed[f]: the input of f has been closed
    inputCloses,  \* inputCloses[f]: number of closes of the input of f
    closeCalls,   \* closeCalls[i]: number of Close calls made by Copy on
                  \* stream i, the source (0) or a filter
    pc,           \* pc[s]: position of the task of stage s
    n,            \* n[s]: bytes transferred by stage s
    cur,          \* cur[s]: block read and not yet written by stage s
    err,          \* err[s]: error of the transfer of stage s
    results,      \* the outcomes held by the copyError
    gErr,         \* the errgroup holds a non-nil error
    countClosed,  \* the count channel is closed
    sum,          \* the summing task's running total
    summerPc,     \* position of the summing task
    copyPc,       \* position of Copy itself
    retN,         \* byte count returned by Copy
    retErr,       \* error returned by Copy: "nil" or "copyError"
    faults,       \* number of stream operations that have failed
    raPc,         \* position of ReadAll: "copy" (in Copy) or "returned"
    raText,       \* the characters of the bytes the source has given
    raOut,        \* the string ReadAll returned
    raErr,        \* the error ReadAll returned
    calls,        \* the commands run on the host, with the host's answers
    ctlOnce,      \* ctlMachine.once: "none", or "ok"/"err" once doInit ran
    ctrcli,       \* the index in clis of the CLI doInit selected, 0 for none
    Machine,      \* machine.Machine: "nil" or "Ctl"
    once,         \* machine.once: "none", or the error doInit returned
    name,         \* machine.name: "image" or "path" once doInit has looked
                  \* at it, "?" before
    hash,         \* machine.hash
    done,         \* machine.done
    cpc,          \* cpc[p]: position of caller p: "idle", or "rlock" between
                  \* the init and the RLock of machine.Command
    carg,         \* carg[p]: the arguments of the Command p is in
    ret,          \* the operation that returned last, with its result
    ops           \* number of operations called so far

readAllVars == <<raPc, raText, raOut, raErr>>
ctlVars == <<calls, ctlOnce, ctrcli>>
machineVars == <<Machine, once, name, hash, done, cpc, carg>>
ctrVars == <<ctlVars, machineVars, ret, ops>>

vars == <<fil, srcWT, srcPos, dstCloser, dstBuf, dstCloses, wclosed,
          inputCloses, closeCalls, pc, n, cur, err, results, gErr,
          countClosed, sum, summerPc, copyPc, retN, retErr, faults,
          readAllVars, ctrVars>>

N == Len(fil)
Stages == 0..N
Filters == 1..N
Dst == N + 1

KindOf(i) == IF i = 0 THEN "src" ELSE IF i = Dst THEN "dst" ELSE fil[i]

\* Leaf errors.
ErrReadOnly == [op |-> "ErrReadOnly", at |-> 0]
ReadErr(i) == [op |-> "read", at |-> i]
WriteErr(i) == [op |-> "write", at |-> i]
CloseErr(i) == [op |-> "close", at |-> i]

\* errors.Join: nil when both are nil, else the non-nil ones in order.
Join(e1, e2) == e1 \o e2

\* cmdString: the String() of a Stringer, else a tag of the value's type.
Stringer(i) == KindOf(i) \in {"src", "plain"}
cmdString(i) ==
    IF Stringer(i) THEN [k |-> "name", op |-> KindOf(i), at |-> i]
    ELSE [k |-> "type", op |-> KindOf(i), at |-> 0]

\* The zero copyResult.
NoResult == [cmd |-> [k |-> "none", op |-> "", at |-> 0], rdr |-> 0 - 1,
             err |-> <<>>, sets |-> 0]

\* io.Copy uses src.WriteTo when the source has it, else dst.ReadFrom when
\* the destination has it.  Only the source may be a WriterTo; only the
\* NewFilter stages have ReadFrom.
UsesWT(s) == s = 0 /\ srcWT
UsesRF(s) == ~UsesWT(s) /\ KindOf(s + 1) \in {"wfilter", "rofilter"}

\* filter.ReadFrom on a read-only handle returns ErrReadOnly at once.
ReadFromReadOnly(s) == UsesRF(s) /\ KindOf(s + 1) = "rofilter"

\* Variant of Finish in which the byte count is sent whatever the error.
FinishAlwaysCounts(s, e) ==
    IF UsesRF(s) /\ KindOf(s + 1) = "wfilter" THEN "rfclose" ELSE "count"

\* Where a task goes when its reading and writing is over with error e.
Finish(s, e) ==
    IF UsesRF(s) /\ KindOf(s + 1) = "wfilter" THEN "rfclose"
    ELSE IF e = <<>> THEN "count" ELSE "defer"

\* Where a task goes after a successful write.
AfterWrite(s) == IF UsesWT(s) THEN Finish(s, <<>>) ELSE "read"

\* The bytes the source has given.
SrcData == [k \in 1..srcPos |-> k]

Init ==
    /\ fil \in UNION {[1..k -> Kinds] : k \in 0..MaxFilters}
    /\ srcWT \in BOOLEAN
    /\ srcPos = 0
    /\ dstCloser = "?"
    /\ dstBuf = <<>>
    /\ dstCloses = 0
    /\ wclosed = [f \in 1..Len(fil) |-> FALSE]
    /\ inputCloses = [f \in 1..Len(fil) |-> 0]
    /\ closeCalls = [i \in 0..Len(fil) |-> 0]
    /\ pc = [s \in 0..Len(fil) |-> "idle"]
    /\ n = [s \in 0..Len(fil) |-> 0]
    /\ cur = [s \in 0..Len(fil) |-> <<>>]
    /\ err = [s \in 0..Len(fil) |-> <<>>]
    /\ results = [s \in 0..Len(fil) |-> NoResult]
    /\ gErr = FALSE
    /\ countClosed = FALSE
    /\ sum = 0
    /\ summerPc = "recv"
    /\ copyPc = "launch"
    /\ retN = 0
    /\ retErr = "nil"
    /\ faults = 0
    /\ raPc = "copy"
    /\ raText = <<>>
    /\ raOut = <<>>
    /\ raErr = "nil"
    /\ calls = <<>>
    /\ ctlOnce = "none"
    /\ ctrcli = 0
    /\ Machine = "nil"
    /\ once = "none"
    /\ name = "?"
    /\ hash = <<>>
    /\ done = FALSE
    /\ cpc = [p \in 1..MaxProcs |-> "idle"]
    /\ carg = [p \in 1..MaxProcs |-> <<>>]
    /\ ret = [op |-> "none", arg |-> <<>>, val |-> "none"]
    /\ ops = 0

\* What no step of Copy changes: its arguments, the state of its caller and
\* the container machines.
envVars == <<fil, srcWT, readAllVars, ctrVars>>
copyVars == <<countClosed, summerPc, copyPc, retN, retErr>>
closeVars == <<dstCloser, dstCloses, wclosed, inputCloses, closeCalls>>

\* A stream operation may fail while the model's budget of failures lasts.
MayFail == faults < MaxFaults

(***************************************************************************)
(* Copy starts the summing task and one task per stage (g.Go never blocks) *)
(* and waits in g.Wait.  Each task enters io.Copy(w, r), which chooses the *)
(* transfer path from the types of r and w:                                *)
(*  - src.WriteTo(w): nothing is written when the source is empty, else    *)
(*    its len bytes go out in one Write;                                   *)
(*  - filter.ReadFrom on a read-only handle: ErrReadOnly at once;          *)
(*  - else the read/write loop (inside filter.ReadFrom for a writable      *)
(*    handle).                                                             *)
(***************************************************************************)
StartPc(s, len) ==
    IF UsesWT(s) THEN IF len = 0 THEN Finish(s, <<>>) ELSE "write"
    ELSE IF ReadFromReadOnly(s) THEN "defer"
    ELSE "read"

StartErr(s) == IF ReadFromReadOnly(s) THEN <<ErrReadOnly>> ELSE <<>>

Launch ==
    /\ copyPc = "launch"
    /\ \E len \in 0..MaxSrcLen :
         /\ srcWT \/ len = 0
         /\ srcPos' = len
         /\ cur' = [s \in Stages |->
                      IF UsesWT(s) THEN [k \in 1..len |-> k] ELSE <<>>]
         /\ pc' = [s \in Stages |-> StartPc(s, len)]
    /\ err' = [s \in Stages |-> StartErr(s)]
    /\ copyPc' = "wait"
    /\ UNCHANGED <<envVars, closeVars, dstBuf, n, results, gErr, countClosed,
                   sum, summerPc, retN, retErr, faults>>

\* The transfer of stage s ends with error e.
EndTransfer(s, e) ==
    /\ err' = [err EXCEPT ![s] = e]
    /\ pc' = [pc EXCEPT ![s] = Finish(s, e)]

\* A Read of stage s from its input fails.
ReadFails(s) ==
    /\ pc[s] = "read"
    /\ MayFail
    /\ EndTransfer(s, <<ReadErr(s)>>)
    /\ faults' = faults + 1
    /\ UNCHANGED <<envVars, copyVars, closeVars, srcPos, dstBuf, n, cur,
                   results, gErr, sum>>

\* A Read of stage 0 from the source gives the next byte.
ReadData(s) ==
    /\ pc[s] = "read"
    /\ s = 0
    /\ srcPos < MaxSrcLen
    /\ srcPos' = srcPos + 1
    /\ cur' = [cur EXCEPT ![s] = <<srcPos + 1>>]
    /\ pc' = [pc EXCEPT ![s] = "write"]
    /\ UNCHANGED <<envVars, copyVars, closeVars, dstBuf, n, err, results,
                   gErr, sum, faults>>

\* A Read of stage s reports the end of its input: the source is exhausted,
\* the input of a pipe-like stage has been closed, or the stage's output
\* does not depend on its input and is empty.
ReadEOF(s) ==
    /\ pc[s] = "read"
    /\ \/ s = 0
       \/ s > 0 /\ fil[s] \in PipeLike /\ wclosed[s]
       \/ s > 0 /\ fil[s] \in {"rofilter", "plain"}
    /\ EndTransfer(s, <<>>)
    /\ UNCHANGED <<envVars, copyVars, closeVars, srcPos, dstBuf, n, cur,
                   results, gErr, sum, faults>>

\* A Write of stage s to its output fails.
WriteFails(s) ==
    /\ pc[s] = "write"
    /\ KindOf(s + 1) # "rofilter"
    /\ MayFail
    /\ EndTransfer(s, <<WriteErr(s + 1)>>)
    /\ faults' = faults + 1
    /\ UNCHANGED <<envVars, copyVars, closeVars, srcPos, dstBuf, n, cur,
                   results, gErr, sum>>

\* filter.Write on a read-only handle
WriteReadOnly(s) ==
    /\ pc[s] = "write"
    /\ KindOf(s + 1) = "rofilter"
    /\ EndTransfer(s, <<ErrReadOnly>>)
    /\ UNCHANGED <<envVars, copyVars, closeVars, srcPos, dstBuf, n, cur,
                   results, gErr, sum, faults>>

\* A Write of stage s to the destination or to a plain stage.
WriteData(s) ==
    /\ pc[s] = "write"
    /\ \/ /\ s = N
          /\ dstBuf' = dstBuf \o cur[s]
       \/ /\ s < N
          /\ fil[s + 1] = "plain"
          /\ UNCHANGED dstBuf
    /\ n' = [n EXCEPT ![s] = @ + Len(cur[s])]
    /\ cur' = [cur EXCEPT ![s] = <<>>]
    /\ pc' = [pc EXCEPT ![s] = AfterWrite(s)]
    /\ UNCHANGED <<envVars, copyVars, closeVars, srcPos, err, results, gErr,
                   sum, faults>>

\* A Write of stage s to a pipe-like stage meets the Read of stage s+1: the
\* write blocks until the read takes its block, the read blocks until a
\* write offers one.
PipeTransfer(s) ==
    /\ s < N
    /\ pc[s] = "write"
    /\ fil[s + 1] \in PipeLike
    /\ pc[s + 1] = "read"
    /\ n' = [n EXCEPT ![s] = @ + Len(cur[s])]
    /\ cur' = [cur EXCEPT ![s] = <<>>, ![s + 1] = cur[s]]
    /\ pc' = [pc EXCEPT ![s] = AfterWrite(s), ![s + 1] = "write"]
    /\ UNCHANGED <<envVars, copyVars, closeVars, srcPos, dstBuf, err, results,
                   gErr, sum, faults>>

\* Variant of CloseInput in which the close does not reach the reader.
CloseInputUnseen(f) ==
    /\ wclosed' = wclosed
    /\ inputCloses' = [inputCloses EXCEPT ![f] = @ + 1]

\* wb.Close() / pw.Close(): the input of stage f is closed, which ends the
\* input of whoever reads the output of f.
CloseInput(f) ==
    /\ wclosed' = [wclosed EXCEPT ![f] = TRUE]
    /\ inputCloses' = [inputCloses EXCEPT ![f] = @ + 1]

\* Variant of ReadFromErr in which the close error overwrites the copy error.
ReadFromErrOverwritten(copyErr, closeErr) == closeErr

\* The error filter.ReadFrom reports: if err == nil { err = closeErr }.
ReadFromErr(copyErr, closeErr) ==
    IF copyErr = <<>> THEN closeErr ELSE copyErr

\* filter.ReadFrom after its io.Copy: close the input, report the copy
\* error, else the close error.
ReadFromClose(s) ==
    /\ pc[s] = "rfclose"
    /\ \E ok \in {TRUE, ~MayFail} :
         LET closeErr == IF ok THEN <<>> ELSE <<CloseErr(s + 1)>>
             e == ReadFromErr(err[s], closeErr)
         IN /\ err' = [err EXCEPT ![s] = e]
            /\ pc' = [pc EXCEPT ![s] = IF e = <<>> THEN "count" ELSE "defer"]
            /\ faults' = IF ok THEN faults ELSE faults + 1
    /\ CloseInput(s + 1)
    /\ UNCHANGED <<envVars, copyVars, dstCloser, dstCloses, closeCalls,
                   srcPos, dstBuf, n, cur, results, gErr, sum>>

\* Variant of CountSent in which only the last stage reports its bytes.
CountSentByLastStage(s) == IF s = N THEN n[s] ELSE 0

\* The value a task sends on the count channel: the n of its io.Copy.
CountSent(s) == n[s]

\* count <- n, received by the summing task.
SendCount(s) ==
    /\ pc[s] = "count"
    /\ summerPc = "recv"
    /\ ~countClosed
    /\ sum' = sum + CountSent(s)
    /\ pc' = [pc EXCEPT ![s] = "defer"]
    /\ UNCHANGED <<envVars, copyVars, closeVars, srcPos, dstBuf, n, cur, err,
                   results, gErr, faults>>

\* What the task of stage s hands to the errgroup: the error of its transfer.
\* The deferred function does not assign the task's result.
TaskError(s, closeErr) == err[s]

\* Variant of ResultSlot that is off by one.
ResultSlotOffByOne(s) == IF s = 0 THEN 0 ELSE s - 1

\* The slot of the copyError the task of stage s sets (the code's i+1).
ResultSlot(s) == s

\* Variant of StageResult in which the close error is kept only when the
\* transfer succeeded.
StageResultFirstError(s, closeErr) ==
    [cmd |-> cmdString(s), rdr |-> s,
     err |-> IF err[s] # <<>> THEN err[s] ELSE closeErr,
     sets |-> results[ResultSlot(s)].sets + 1]

\* The copyResult of stage s.
StageResult(s, closeErr) ==
    [cmd |-> cmdString(s), rdr |-> s, err |-> Join(err[s], closeErr),
     sets |-> results[ResultSlot(s)].sets + 1]

\* Variant of CloseTarget in which the task closes the stream it read.
CloseTargetReader(s) == s

\* The stream the task of stage s closes: its output w.
CloseTarget(s) == s + 1

\* The deferred function of the task of stage s: close the output if it is
\* an io.Closer, set the stage's result; then the task returns and the
\* errgroup keeps its error if it is the first.
Deferred(s) ==
    /\ pc[s] = "defer"
    /\ \E ok \in {TRUE, ~MayFail} :
         LET closeErr == IF ok THEN <<>> ELSE <<CloseErr(s + 1)>>
             taskErr == TaskError(s, closeErr)
         IN /\ \/ /\ s = N
                  /\ ok
                  /\ dstCloser' = "no"
                  /\ UNCHANGED <<dstCloses, wclosed, inputCloses, closeCalls>>
               \/ /\ s = N
                  /\ dstCloser' = "yes"
                  /\ dstCloses' = dstCloses + 1
                  /\ UNCHANGED <<wclosed, inputCloses, closeCalls>>
               \/ /\ s < N
                  /\ fil[s + 1] = "plain"
                  /\ ok
                  /\ UNCHANGED closeVars
               \/ /\ s < N
                  /\ fil[s + 1] = "rofilter"
                  /\ ok
                  /\ closeCalls' = [closeCalls EXCEPT ![CloseTarget(s)] = @ + 1]
                  /\ UNCHANGED <<dstCloser, dstCloses, wclosed, inputCloses>>
               \/ /\ s < N
                  /\ fil[s + 1] \in PipeLike
                  /\ closeCalls' = [closeCalls EXCEPT ![CloseTarget(s)] = @ + 1]
                  /\ CloseInput(s + 1)
                  /\ UNCHANGED <<dstCloser, dstCloses>>
            /\ results' = [results EXCEPT
                             ![ResultSlot(s)] = StageResult(s, closeErr)]
            /\ gErr' = (gErr \/ taskErr # <<>>)
            /\ faults' = IF ok THEN faults ELSE faults + 1
    /\ pc' = [pc EXCEPT ![s] = "done"]
    /\ UNCHANGED <<envVars, copyVars, srcPos, dstBuf, n, cur, err, sum>>

\* Variant of AllTasksDone in which the wait ends with the first task.
SomeTaskDone == \E s \in Stages : pc[s] = "done"

\* g.Wait returns when every task has returned.
AllTasksDone == \A s \in Stages : pc[s] = "done"

\* err = g.Wait(); close(count)
WaitAndClose ==
    /\ copyPc = "wait"
    /\ AllTasksDone
    /\ countClosed' = TRUE
    /\ copyPc' = "total"
    /\ UNCHANGED <<envVars, closeVars, srcPos, dstBuf, pc, n, cur, err,
                   results, gErr, sum, summerPc, retN, retErr, faults>>

\* Variant of RangeEnds in which the loop ends when no value is waiting.
RangeEndsWhenIdle == \A s \in Stages : pc[s] # "count"

\* for n := range count ends when the channel is closed.
RangeEnds == countClosed

\* The summing task leaves its range loop and offers its total.
SummerEnds ==
    /\ summerPc = "recv"
    /\ RangeEnds
    /\ summerPc' = "send"
    /\ UNCHANGED <<envVars, closeVars, srcPos, dstBuf, pc, n, cur, err,
                   results, gErr, countClosed, sum, copyPc, retN, retErr,
                   faults>>

\* The error Copy returns: the copyError when g.Wait gave an error.
CopyError == IF gErr THEN "copyError" ELSE "nil"

\* return <-total, err
Return ==
    /\ copyPc = "total"
    /\ summerPc = "send"
    /\ retN' = sum
    /\ retErr' = CopyError
    /\ copyPc' = "returned"
    /\ summerPc' = "done"
    /\ UNCHANGED <<envVars, closeVars, srcPos, dstBuf, pc, n, cur, err,
                   results, gErr, countClosed, sum, faults>>

Next ==
    \/ Launch
    \/ \E s \in Stages : ReadFails(s)
    \/ \E s \in Stages : ReadData(s)
    \/ \E s \in Stages : ReadEOF(s)
    \/ \E s \in Stages : WriteFails(s)
    \/ \E s \in Stages : WriteReadOnly(s)
    \/ \E s \in Stages : WriteData(s)
    \/ \E s \in Stages : PipeTransfer(s)
    \/ \E s \in Stages : ReadFromClose(s)
    \/ \E s \in Stages : SendCount(s)
    \/ \E s \in Stages : Deferred(s)
    \/ WaitAndClose
    \/ SummerEnds
    \/ Return

Spec == Init /\ [][Next]_vars

\* A step that is not the failure of a stream operation.
Progress == Next /\ faults' = faults

\* Every task that can take a step eventually does (the Go scheduler).  No
\* stream operation is bound to fail, so fairness covers the other steps.
FairSpec == Spec /\ WF_vars(Progress)

\* Copy on a pipeline of pipe-like stages in which no stream operation
\* fails.
AllPipeLike == \A f \in Filters : fil[f] \in PipeLike
PipeInit == Init /\ AllPipeLike
PipeNext ==
    \/ Launch
    \/ \E s \in Stages : ReadData(s)
    \/ \E s \in Stages : ReadEOF(s)
    \/ \E s \in Stages : WriteData(s)
    \/ \E s \in Stages : PipeTransfer(s)
    \/ \E s \in Stages : ReadFromClose(s) /\ faults' = faults
    \/ \E s \in Stages : SendCount(s)
    \/ \E s \in Stages : Deferred(s) /\ faults' = faults
    \/ WaitAndClose
    \/ SummerEnds
    \/ Return
PipeSpec == PipeInit /\ [][PipeNext]_vars /\ WF_vars(PipeNext)

Returned == copyPc = "returned"

(***************************************************************************)
(* ReadAll(r, f...): Copy(&buf, r, f...) into a strings.Builder, which is  *)
(* no io.Closer and whose Write never fails, then strings.TrimRight of the *)
(* buffer.  A text is a sequence of characters; the character of each byte *)
(* of the source is fixed when ReadAll looks at the buffer.                *)
(***************************************************************************)
Chars == {"CR", "LF", "SP", "TAB", "x"}

\* Variant of Cutset that trims all white space.
CutsetWhiteSpace == {"CR", "LF", "SP", "TAB"}

\* The cutset "\r\n" given to strings.TrimRight.
Cutset == {"CR", "LF"}

\* strings.TrimRight(s, cutset): s without its trailing characters that are
\* in cutset.
RECURSIVE TrimRight(_, _)
TrimRight(s, cutset) ==
    IF s = <<>> THEN <<>>
    ELSE IF s[Len(s)] \in cutset
         THEN TrimRight(SubSeq(s, 1, Len(s) - 1), cutset)
         ELSE s

\* buf.String() when the bytes of the source are the characters txt.
BufString(txt) == [i \in 1..Len(dstBuf) |-> txt[dstBuf[i]]]

copyAllVars == <<fil, srcWT, srcPos, closeVars, dstBuf, pc, n, cur, err,
                 results, gErr, sum, copyVars, faults>>

\* ReadAll after its Copy has returned.
ReadAllReturns ==
    /\ raPc = "copy"
    /\ Returned
    /\ \E txt \in [1..srcPos -> Chars] :
         /\ raText' = txt
         /\ IF retErr # "nil"
            THEN raOut' = <<>> /\ raErr' = retErr
            ELSE raOut' = TrimRight(BufString(txt), Cutset) /\ raErr' = "nil"
    /\ raPc' = "returned"
    /\ UNCHANGED <<copyAllVars, ctrVars>>

ReadAllInit == Init /\ N <= MaxReadAllFilters

ReadAllNext ==
    \/ Launch
    \/ \E s \in Stages : ReadFails(s)
    \/ \E s \in Stages : ReadData(s)
    \/ \E s \in Stages : ReadEOF(s)
    \/ \E s \in Stages : WriteFails(s) /\ s < N
    \/ \E s \in Stages : WriteReadOnly(s)
    \/ \E s \in Stages : WriteData(s)
    \/ \E s \in Stages : PipeTransfer(s)
    \/ \E s \in Stages : ReadFromClose(s)
    \/ \E s \in Stages : SendCount(s)
    \/ \E s \in Stages : Deferred(s) /\ dstCloser' # "yes"
    \/ WaitAndClose
    \/ SummerEnds
    \/ Return
    \/ ReadAllReturns

ReadAllSpec == ReadAllInit /\ [][ReadAllNext]_vars

(***************************************************************************)
(* Package ctr.  A host command is a sequence of words and a word is a     *)
(* sequence of symbols: a fixed word is one symbol, a container id is the  *)
(* characters of its text.  calls is the host's record of the commands it  *)
(* was given (mock.Calls), each with what the host answered.               *)
(***************************************************************************)
Procs == 1..MaxProcs

Words(ws) == [i \in 1..Len(ws) |-> <<ws[i]>>]

clis == <<Words(<<"docker">>), Words(<<"podman">>), Words(<<"nerdctl">>),
          Words(<<"lima", "nerdctl">>)>>

errShutdown == "machine shut down"
errNoCLI == "no container CLI found"

\* How the host answers a version probe ("fail" is any failure other than
\* command-not-found), and what a command may print.
Outcomes == {"ok", "notfound", "fail"}
OutChars == {"LF", "SP", "x"}
Outputs == UNION {[1..k -> OutChars] : k \in 0..MaxOutLen}

\* The commands the callers of a Ctl machine and of a container machine
\* ask for.
Args == {Words(<<"true">>), Words(<<"container", "run", "alpine">>)}
MachineArgs == {Words(<<"true">>)}

Call(args, res, out) == [args |-> args, res |-> res, out |-> out]
Result(op, arg, val) == [op |-> op, arg |-> arg, val |-> val]

\* command.NotFound(err)
NotFound(res) == res = "notfound"

\* The answers of the host to the version probes of the CLIs; it is asked
\* nothing once the probing is done.
ProbeAnswers ==
    IF ctlOnce = "none" THEN [1..Len(clis) -> Outcomes]
    ELSE {[i \in 1..Len(clis) |-> "notfound"]}

\* ctlMachine.doInit: the first CLI whose probe is not NotFound, 0 for none.
Selected(ans) ==
    IF \A i \in 1..Len(clis) : NotFound(ans[i]) THEN 0
    ELSE CHOOSE i \in 1..Len(clis) :
            ~NotFound(ans[i]) /\ \A j \in 1..(i - 1) : NotFound(ans[j])

\* Variant of ProbeCount without the break.
ProbeCountNoBreak(ans) == Len(clis)

\* The number of CLIs the loop probes: it breaks at the selected one.
ProbeCount(ans) == IF Selected(ans) = 0 THEN Len(clis) ELSE Selected(ans)

ProbeArgs(i) == clis[i] \o Words(<<"--version">>)

Probes(ans) ==
    [i \in 1..ProbeCount(ans) |-> Call(ProbeArgs(i), ans[i], <<>>)]

\* Variant of ctlDoInitResult that reports no error.
ctlDoInitNoError(sel) == "ok"

\* if len(ctrcli) == 0 { return nil, fmt.Errorf("no container CLI found") }
ctlDoInitResult(sel) == IF sel = 0 THEN "err" ELSE "ok"

CtlState == [once |-> ctlOnce, cli |-> ctrcli, calls |-> calls]

SetCtl(cs) ==
    /\ ctlOnce' = cs.once
    /\ ctrcli' = cs.cli
    /\ calls' = cs.calls

\* ctlMachine.init: m.once.Do(doInit), the host answering ans to the probes.
ctlInit(cs, ans) ==
    IF cs.once # "none" THEN cs
    ELSE [once |-> ctlDoInitResult(Selected(ans)),
          cli |-> Selected(ans),
          calls |-> cs.calls \o Probes(ans)]

\* sub.Machine(m.host, ctrcli...).Command(arg...): the command the host is
\* given.
SubArgs(cli, arg) == (IF cli = 0 THEN <<>> ELSE clis[cli]) \o arg

\* ctlMachine.Command(arg...) and the run of the command it returns: the
\* possible states of the Ctl machine afterwards, with the result of the
\* run and the output when it succeeded, one of outs.
CtlRun(cs, ans, arg, outs) ==
    LET c == ctlInit(cs, ans)
        Ran(r, o) ==
            [cs |-> [c EXCEPT
                       !.calls = Append(@, Call(SubArgs(c.cli, arg), r, o))],
             res |-> r, out |-> o]
    IN IF c.once = "err"
       THEN {[cs |-> c, res |-> errNoCLI, out |-> <<>>]}
       ELSE {Ran("ok", o) : o \in outs}
                \cup {Ran("fail", <<>>)}

\* command.Do(ctx, ctl, arg...) by caller p on a Ctl machine.
CtlCommand(p, arg) ==
    /\ ops < MaxOps
    /\ \E ans \in ProbeAnswers :
         \E r \in CtlRun(CtlState, ans, arg, {<<>>}) :
            /\ SetCtl(r.cs)
            /\ ret' = Result("Ctl", arg, r.res)
    /\ ops' = ops + 1
    /\ UNCHANGED <<copyAllVars, readAllVars, machineVars>>

\* The words of the commands of the container machine.  The machine is
\* made without extra arguments to the run command.
NameWord(nm) == IF nm = "path" THEN <<"sha1(path)">> ELSE <<"alpine">>
InspectArgs ==
    Words(<<"image", "inspect", "--format", "{{.Created}}">>)
        \o <<NameWord("path")>>
BuildArgs ==
    Words(<<"image", "build", "--file", "path", "--no-cache", "--tag">>)
        \o <<NameWord("path")>> \o Words(<<"dir(path)">>)
RunArgs(nm) ==
    Words(<<"container", "run", "--rm", "-d", "-i">>) \o <<NameWord(nm)>>
        \o Words(<<"cat">>)
RmArgs(h) == Words(<<"container", "rm", "-f">>) \o <<h>>

\* newCmd: the command runs in the container, through the Ctl machine.
ExecArgs(h, arg) == Words(<<"container", "exec", "-i">>) \o <<h>> \o arg

\* buildContainer: the possible states of the Ctl machine afterwards, and
\* whether it returned without error.
AfterInspect(i, ans) ==
    {[cs |-> i.cs, ok |-> FALSE]}                     \* getMtime fails
        \cup (IF i.res = "ok"
              THEN {[cs |-> i.cs, ok |-> FALSE],      \* time.Parse fails
                    [cs |-> i.cs, ok |-> TRUE]}       \* the image is newer
              ELSE {})
        \cup {[cs |-> b.cs, ok |-> b.res = "ok"] :
                 b \in CtlRun(i.cs, ans, BuildArgs, {<<>>})}

buildContainer(cs, ans) ==
    {[cs |-> cs, ok |-> FALSE]}                       \* filepath.Abs fails
        \cup UNION {AfterInspect(i, ans) :
                      i \in CtlRun(cs, ans, InspectArgs, {<<"x">>})}

\* strings.TrimSpace
WhiteSpace == {"CR", "LF", "SP", "TAB"}

RECURSIVE TrimLeft(_, _)
TrimLeft(s, cutset) ==
    IF s = <<>> THEN <<>>
    ELSE IF s[1] \in cutset THEN TrimLeft(Tail(s), cutset)
    ELSE s

TrimSpace(s) == TrimLeft(TrimRight(s, WhiteSpace), WhiteSpace)

\* command.Read gives the output of the command, as printed or without its
\* trailing newlines.
ReadGives(out) == {out, TrimRight(out, Cutset)}

\* Variant of HashOf that keeps the output as read.
HashOfRaw(out) == out

\* m.hash = strings.TrimSpace(string(out))
HashOf(out) == TrimSpace(out)

\* machine.doInit from "Start container" on.
StartContainer(cs, ans, nm) ==
    UNION {{[cs |-> r.cs,
             err |-> IF r.res = "ok" THEN "nil" ELSE "start",
             hash |-> IF r.res = "ok" THEN HashOf(got) ELSE <<>>] :
               got \in ReadGives(r.out)} :
             r \in CtlRun(cs, ans, RunArgs(nm), Outputs)}

\* machine.doInit after m.Machine = Ctl(m.host): the possible states of the
\* Ctl machine afterwards, the error returned and the hash set.
machineDoInit(cs, ans, nm) ==
    IF nm = "path"
    THEN UNION {IF b.ok THEN StartContainer(b.cs, ans, nm)
                ELSE {[cs |-> b.cs, err |-> "build", hash |-> <<>>]} :
                  b \in buildContainer(cs, ans)}
    ELSE StartContainer(cs, ans, nm)

\* Variant of InitRefused in which init does not look at done.
InitNeverRefused == FALSE

\* machine.init: if m.done { return errShutdown }
InitRefused == done

\* machine.Command up to the return of m.init, which holds the lock: the
\* call fails with the error of init, or goes on to its RLock.
CommandInit(p, arg) ==
    /\ cpc[p] = "idle"
    /\ ops < MaxOps
    /\ ops' = ops + 1
    /\ IF InitRefused
       THEN /\ ret' = Result("Command", arg, errShutdown)
            /\ UNCHANGED <<ctlVars, machineVars>>
       ELSE IF once = "nil"
       THEN /\ cpc' = [cpc EXCEPT ![p] = "rlock"]
            /\ carg' = [carg EXCEPT ![p] = arg]
            /\ UNCHANGED <<ctlVars, Machine, once, name, hash, done, ret>>
       ELSE IF once # "none"
       THEN /\ ret' = Result("Command", arg, once)
            /\ UNCHANGED <<ctlVars, machineVars>>
       ELSE \E nm \in {"image", "path"} : \E ans \in ProbeAnswers :
              \E o \in machineDoInit(CtlState, ans, nm) :
                 /\ SetCtl(o.cs)
                 /\ Machine' = "Ctl"
                 /\ name' = nm
                 /\ once' = o.err
                 /\ hash' = o.hash
                 /\ IF o.err = "nil"
                    THEN /\ cpc' = [cpc EXCEPT ![p] = "rlock"]
                         /\ carg' = [carg EXCEPT ![p] = arg]
                         /\ UNCHANGED ret
                    ELSE /\ ret' = Result("Command", arg, o.err)
                         /\ UNCHANGED <<cpc, carg>>
                 /\ UNCHANGED done
    /\ UNCHANGED <<copyAllVars, readAllVars>>

\* machine.Command from its RLock on: errShutdown when the machine is done,
\* else newCmd and the run of the command.
CommandRun(p) ==
    /\ cpc[p] = "rlock"
    /\ IF done
       THEN /\ ret' = Result("Command", carg[p], errShutdown)
            /\ UNCHANGED ctlVars
       ELSE \E ans \in ProbeAnswers :
              \E r \in CtlRun(CtlState, ans, ExecArgs(hash, carg[p]), {<<>>}) :
                 /\ SetCtl(r.cs)
                 /\ ret' = Result("Command", carg[p], r.res)
    /\ cpc' = [cpc EXCEPT ![p] = "idle"]
    /\ carg' = [carg EXCEPT ![p] = <<>>]
    /\ UNCHANGED <<Machine, once, name, hash, done, ops, copyAllVars,
                   readAllVars>>

\* machine.Shutdown, which holds the lock.
Shutdown(p) ==
    /\ cpc[p] = "idle"
    /\ ops < MaxOps
    /\ ops' = ops + 1
    /\ done' = TRUE
    /\ IF Machine = "nil"
       THEN /\ ret' = Result("Shutdown", <<>>, "nil")
            /\ UNCHANGED ctlVars
       ELSE \E ans \in ProbeAnswers :
              \E r \in CtlRun(CtlState, ans, RmArgs(hash), {<<>>}) :
                 /\ SetCtl(r.cs)
                 /\ ret' = Result("Shutdown", <<>>,
                                            IF r.res = "ok" THEN "nil"
                                            ELSE r.res)
    /\ UNCHANGED <<Machine, once, name, hash, cpc, carg, copyAllVars,
                   readAllVars>>

\* No Copy is running beside the machines.
CtrInit == Init /\ N = 0 /\ ~srcWT

\* Callers of a Ctl machine.
CtlNext == \E p \in Procs : \E arg \in Args : CtlCommand(p, arg)
CtlSpec == CtrInit /\ [][CtlNext]_vars

\* Callers of a container machine.
MachineNext ==
    \/ \E p \in Procs : \E arg \in MachineArgs : CommandInit(p, arg)
    \/ \E p \in Procs : CommandRun(p)
    \/ \E p \in Procs : Shutdown(p)
MachineSpec == CtrInit /\ [][MachineNext]_vars

(***************************************************************************)
(* The error aggregate.  A text is a sequence of tokens: the descriptor of *)
(* a stage, the message of a leaf error, a newline, a tab, the success     *)
(* marker.                                                                 *)
(***************************************************************************)
NL == [k |-> "newline", op |-> "", at |-> 0]
TAB == [k |-> "tab", op |-> "", at |-> 0]
SUCCESS == [k |-> "success", op |-> "", at |-> 0]
Message(e) == [k |-> "message", op |-> e.op, at |-> e.at]

\* The Error() of a stage's joined error: the messages of its errors, one
\* per line.
RECURSIVE JoinText(_)
JoinText(e) ==
    IF Len(e) = 0 THEN <<>>
    ELSE IF Len(e) = 1 THEN <<Message(e[1])>>
    ELSE <<Message(e[1]), NL>> \o JoinText(Tail(e))

\* strings.ReplaceAll(errStr, "\n", "\n\t")
RECURSIVE Indent(_)
Indent(txt) ==
    IF txt = <<>> THEN <<>>
    ELSE IF Head(txt) = NL THEN <<NL, TAB>> \o Indent(Tail(txt))
    ELSE <<Head(txt)>> \o Indent(Tail(txt))

\* One part of copyError.Error().
Part(result) ==
    IF result.err # <<>>
    THEN <<result.cmd, NL, TAB>> \o Indent(JoinText(result.err))
    ELSE <<result.cmd, NL, TAB, SUCCESS>>

\* copyError.Error(): the parts of all results, joined by "\n\n".
RECURSIVE ErrorFrom(_)
ErrorFrom(k) ==
    IF k > N THEN <<>>
    ELSE IF k = N THEN Part(results[k])
    ELSE Part(results[k]) \o <<NL, NL>> \o ErrorFrom(k + 1)

ErrorText == ErrorFrom(0)

\* copyError.Unwrap(): the non-nil errors of the results, in order.
RECURSIVE UnwrapFrom(_)
UnwrapFrom(k) ==
    IF k > N THEN <<>>
    ELSE (IF results[k].err # <<>> THEN <<results[k].err>> ELSE <<>>)
             \o UnwrapFrom(k + 1)

Unwrap == UnwrapFrom(0)

\* errors.Is(err, target) for the error Copy returned.
ErrorsIs(target) ==
    /\ retErr = "copyError"
    /\ \E i \in 1..Len(Unwrap) :
          \E j \in 1..Len(Unwrap[i]) : Unwrap[i][j] = target

(***************************************************************************)
(* The outcomes of a Copy call.                                            *)
(***************************************************************************)
RECURSIVE SumOver(_, _)
SumOver(f, S) ==
    IF S = {} THEN 0
    ELSE LET x == CHOOSE y \in S : TRUE IN f[x] + SumOver(f, S \ {x})

Recorded(s) == results[s].err
NoStageFailed == \A s \in Stages : Recorded(s) = <<>>
SomeStageFailed == \E s \in Stages : Recorded(s) # <<>>
TransferOK == {s \in Stages : err[s] = <<>>}

\* C1: Copy returns the error aggregate exactly when some stage recorded a
\* non-nil outcome error (transfer error, close error of its output, or
\* both); in particular a stage whose transfer succeeded and whose output
\* Close failed makes Copy return a non-nil error.
C1_RecordedErrorIsReturned ==
    Returned => (SomeStageFailed <=> retErr = "copyError")

\* C2 as stated: when every stage succeeds Copy returns a nil error and the
\* number of bytes received by the destination.
C2_CountIsDestinationBytes ==
    (Returned /\ NoStageFailed) => (retErr = "nil" /\ retN = Len(dstBuf))

\* C2 as amended: when every stage succeeds Copy returns a nil error and the
\* sum of the bytes transferred by all its stages; through pass-through
\* filters the destination holds exactly the source's bytes and the count
\* is len(filters)+1 times their number.
C2_CountIsSumOfAllStages ==
    (Returned /\ NoStageFailed) =>
        /\ retErr = "nil"
        /\ retN = SumOver(n, Stages)
        /\ AllPipeLike => (dstBuf = SrcData /\ retN = (N + 1) * Len(dstBuf))

C2_Witness ==
    /\ Returned /\ NoStageFailed
    /\ N = 1 /\ fil[1] = "pipe"
    /\ dstBuf = <<1, 2>>
    /\ retN = 4

\* C3: the byte count Copy returns is the sum, over exactly the stages
\* whose transfer returned no error, of the bytes the stage transferred; a
\* stage whose transfer failed adds nothing, a stage whose transfer
\* succeeded and whose output Close failed adds its bytes while its outcome
\* carries the close error.
C3_CountSumsSuccessfulTransfers ==
    Returned => retN = SumOver(n, TransferOK)

C3_Witness ==
    /\ Returned
    /\ \E s \in Stages : err[s] = <<>> /\ Recorded(s) # <<>> /\ n[s] > 0
    /\ \E s \in Stages : err[s] # <<>> /\ n[s] > 0
    /\ retN > 0

\* C4: after Copy returns every intermediate stage that has a Close has had
\* it called exactly once, and the closable input behind it has been closed
\* exactly once, whatever failed, NewFilter stages included.
C4_ClosedExactlyOnce ==
    Returned =>
        \A f \in Filters :
            /\ fil[f] # "plain" => closeCalls[f] = 1
            /\ fil[f] \in PipeLike => inputCloses[f] = 1

\* C5: with pipe-like intermediate stages, whatever fails, Copy is never
\* stuck before it has returned: some task can always go on without the
\* help of a further failure, so all len(filters)+1 tasks finish and Copy
\* returns.
C5_NeverStuckBeforeReturn ==
    AllPipeLike => (Returned \/ ENABLED Progress)

\* C6: Copy reads the total and the outcomes only after every task has
\* finished; each outcome is written exactly once, at its stage's index;
\* the count channel is closed only when no task is left to send on it.
C6_ReturnsAfterAllTasks ==
    /\ \A s \in Stages :
          /\ results[s].sets = (IF pc[s] = "done" THEN 1 ELSE 0)
          /\ results[s].sets = 1 => results[s].rdr = s
    /\ (countClosed \/ copyPc \in {"total", "returned"}) =>
          \A s \in Stages : pc[s] = "done"

C6_Witness ==
    /\ Returned
    /\ N = 2
    /\ \A s \in Stages : results[s].sets = 1
    /\ SomeStageFailed

\* The leaf errors of every stage: its transfer error and the close error
\* of its output.
Failures ==
    UNION {{Recorded(s)[j] : j \in 1..Len(Recorded(s))} : s \in Stages}

\* The stages with a recorded error, in pipeline order.
RECURSIVE FailedFrom(_)
FailedFrom(k) ==
    IF k > N THEN <<>>
    ELSE (IF Recorded(k) # <<>> THEN <<k>> ELSE <<>>) \o FailedFrom(k + 1)

\* Position in the text of the entry of stage k, and the length of that
\* entry: descriptor, newline, tab, then the success marker or one message
\* per error with a newline and a tab between two of them.
EntryLen(k) == IF Recorded(k) = <<>> THEN 4 ELSE 3 * Len(Recorded(k)) + 1
EntryAt(k) == SumOver([j \in Stages |-> EntryLen(j) + 2], 0..(k - 1))

EntryOK(txt, k) ==
    LET at == EntryAt(k)
        e == Recorded(k)
    IN /\ Len(txt) >= at + EntryLen(k)
       /\ txt[at + 1] = cmdString(k)
       /\ txt[at + 2] = NL /\ txt[at + 3] = TAB
       /\ IF e = <<>> THEN txt[at + 4] = SUCCESS
          ELSE \A j \in 1..Len(e) :
                  /\ txt[at + 3 * j + 1] = Message(e[j])
                  /\ j > 1 => (txt[at + 3 * j - 1] = NL /\ txt[at + 3 * j] = TAB)
       /\ k < N => (txt[at + EntryLen(k) + 1] = NL /\ txt[at + EntryLen(k) + 2] = NL)
       /\ k = N => Len(txt) = at + EntryLen(k)

\* C7: if any stage fails, the error Copy returns unwraps to exactly the
\* non-nil per-stage errors in pipeline order, every stage's original error
\* is matched by errors.Is, and its message has one entry per stage in
\* pipeline order: the descriptor, then <success> or the tab-indented error
\* text, entries separated by a blank line.
C7_AggregateReportsEveryFailure ==
    (Returned /\ SomeStageFailed) =>
        /\ retErr = "copyError"
        /\ Unwrap = [i \in 1..Len(FailedFrom(0)) |-> Recorded(FailedFrom(0)[i])]
        /\ \A e \in Failures : ErrorsIs(e)
        /\ \A k \in Stages : EntryOK(ErrorText, k)

\* C8: the aggregate holds len(filters)+1 outcomes in pipeline order;
\* outcome k carries the descriptor of the stream stage k reads (the source
\* for k = 0, filter k for k >= 1 in the numbering of the streams) and the
\* result of copying it into the next stream; no slot is unpopulated when
\* Copy returns.
C8_OneOutcomePerStage ==
    Returned =>
        /\ DOMAIN results = 0..N
        /\ \A k \in Stages :
              /\ results[k].sets >= 1
              /\ results[k].rdr = k
              /\ results[k].cmd = cmdString(k)
              /\ SubSeq(results[k].err, 1, Len(err[k])) = err[k]

C8_Witness ==
    /\ Returned
    /\ N = 2
    /\ fil[1] = "plain" /\ fil[2] = "pipe"
    /\ results[1].cmd = [k |-> "name", op |-> "plain", at |-> 1]
    /\ results[2].err # <<>>

\* C9: in a pipeline of pipe-like stages in which no stream fails, every
\* stage closes its output when its own transfer is over, so every stage
\* sees the end of its input and finishes, the destination receives
\* exactly the source's bytes and Copy returns a nil error.
C9_EndOfInputPropagates ==
    <>(/\ Returned
       /\ \A s \in Stages : pc[s] = "done"
       /\ \A f \in Filters : wclosed[f]
       /\ dstBuf = SrcData
       /\ retErr = "nil")

C9_Witness ==
    /\ Returned
    /\ N = 2
    /\ dstBuf = <<1, 2>>
    /\ ~srcWT
    /\ retErr = "nil"

\* The stage that feeds stream f has tried to write to it: by ReadFrom, or
\* by a Write of the source's WriteTo, which writes nothing for an empty
\* source.
TriedToWrite(f) == UsesRF(f - 1) \/ srcPos > 0

\* C10: a write to a read-only stage fails with ErrReadOnly, by Write and
\* by ReadFrom, and its Close does nothing and returns nil; with such a
\* stage in the pipeline the stage feeding it records ErrReadOnly, and Copy
\* does not hang but returns the aggregate, which holds ErrReadOnly.
C10_ReadOnlyStageFailsCleanly ==
    (\E f \in Filters : fil[f] = "rofilter") =>
        /\ \A f \in Filters :
              (fil[f] = "rofilter" /\ TriedToWrite(f)) =>
                 /\ pc[f - 1] \in {"defer", "done"} => err[f - 1] = <<ErrReadOnly>>
                 /\ pc[f - 1] = "done" => Recorded(f - 1) = <<ErrReadOnly>>
                 /\ inputCloses[f] = 0
                 /\ Returned => ErrorsIs(ErrReadOnly)
        /\ Returned \/ ENABLED Progress

\* The transfer of stage s is filter.ReadFrom on a writable handle.
DrainsIntoHandle(s) == UsesRF(s) /\ KindOf(s + 1) = "wfilter"

\* The bytes the input of stage s has given when it reports its end.
Given(s) ==
    IF s = 0 THEN srcPos ELSE IF fil[s] \in PipeLike THEN n[s - 1] ELSE 0

\* filter.ReadFrom returns in this step.
ReadFromReturns(s) == pc[s] = "rfclose" /\ pc'[s] # "rfclose"

\* C11: ReadFrom on a writable handle copies all bytes of its source into
\* the handle's input and then closes that input, also when the copy
\* failed; it reports the copy error when the copy failed, else the close
\* error when the close failed, else nil, and the number of bytes copied.
C11_ReadFromClosesAndReports ==
    /\ [](\A s \in Stages :
            (DrainsIntoHandle(s) /\ pc[s] \in {"count", "defer", "done"}) =>
                /\ wclosed[s + 1]
                /\ inputCloses[s + 1] >= 1
                /\ err[s] = <<>> => n[s] = Given(s)
                /\ s + 1 <= N => n[s] = n[s + 1] + Len(cur[s + 1]))
    /\ [][\A s \in Stages :
            ReadFromReturns(s) =>
                /\ DrainsIntoHandle(s)
                /\ inputCloses'[s + 1] = inputCloses[s + 1] + 1
                /\ wclosed'[s + 1]
                /\ n'[s] = n[s]
                /\ err[s] # <<>> => err'[s] = err[s]
                /\ err[s] = <<>> =>
                      /\ n[s] = Given(s)
                      /\ err'[s] = (IF faults' > faults
                                    THEN <<CloseErr(s + 1)>> ELSE <<>>)]_vars

\* The copy and the close of ReadFrom have both failed; ReadFrom has
\* returned the copy error.
C11_Witness ==
    /\ N = 1 /\ fil[1] = "wfilter" /\ ~srcWT
    /\ pc[0] = "defer" /\ pc[1] = "read" /\ err[1] = <<>>
    /\ faults = 2
    /\ srcPos = 1 /\ n[0] = 1
    /\ err[0] = <<ReadErr(0)>>
    /\ inputCloses[1] = 1

\* The task of stage s runs its deferred function in this step.
TaskReturns(s) == pc[s] = "defer" /\ pc'[s] = "done"

C18_OutputClosedInputLeftOpen ==
    /\ closeCalls[0] = 0
    /\ \A f \in Filters :
          closeCalls[f] =
              (IF fil[f] # "plain" /\ pc[f - 1] = "done" THEN 1 ELSE 0)
    /\ \A f \in Filters :
          (fil[f] \in PipeLike /\ pc[f - 1] = "done") => wclosed[f]
    /\ dstCloses = (IF pc[N] = "done" /\ dstCloser = "yes" THEN 1 ELSE 0)
    /\ pc[N] = "done" <=> dstCloser # "?"

C18_Witness ==
    /\ N = 2 /\ fil[1] = "pipe" /\ fil[2] = "rofilter"
    /\ pc[0] = "done" /\ pc[1] = "done" /\ pc[2] = "done"
    /\ err[1] = <<ErrReadOnly>> /\ err[2] # <<>>
    /\ closeCalls = <<1, 1>> @@ (0 :> 0)
    /\ dstCloser = "yes" /\ dstCloses = 1

\* C20: a task that sends its byte count always finds the summing task
\* receiving on the open channel; the summing task leaves its loop only
\* when the channel is closed and delivers its total once, to the returning
\* Copy; when Copy has returned no stage task and no summing task is left.
C20_CountingNeverBlocks ==
    /\ \A s \in Stages :
          pc[s] = "count" => (summerPc = "recv" /\ ~countClosed)
    /\ summerPc # "recv" => countClosed
    /\ summerPc = "done" <=> Returned
    /\ Returned => (retN = sum /\ \A s \in Stages : pc[s] = "done")

C20_Witness ==
    /\ Returned
    /\ N = 2
    /\ summerPc = "done"
    /\ retN = 2
    /\ \E s \in Stages : err[s] # <<>>
    /\ \E s \in Stages : err[s] = <<>> /\ n[s] = 2

\* C12: on success ReadAll returns the accumulated text without its
\* maximal trailing run of CR and LF characters and otherwise unchanged
\* (trailing spaces and tabs and interior CR and LF kept, "" for an empty
\* or newline-only text); when Copy fails it returns "" and Copy's error.
C12_ReadAllStripsTrailingNewlines ==
    raPc = "returned" =>
        LET B == BufString(raText)
        IN IF retErr = "nil"
           THEN /\ raErr = "nil"
                /\ \E k \in 0..Len(B) :
                      /\ raOut = SubSeq(B, 1, k)
                      /\ \A i \in (k + 1)..Len(B) : B[i] \in {"CR", "LF"}
                      /\ k > 0 => B[k] \notin {"CR", "LF"}
                /\ (AllPipeLike /\ NoStageFailed) => B = raText
           ELSE /\ raOut = <<>>
                /\ raErr = "copyError"
                /\ \E s \in Stages : err[s] # <<>>

C12_Witness ==
    /\ raPc = "returned"
    /\ N = 1 /\ fil[1] = "pipe"
    /\ raText = <<"TAB", "LF">>
    /\ raOut = <<"TAB">>
    /\ raErr = "nil"

(***************************************************************************)
(* The calls of the container machines.                                    *)
(***************************************************************************)
\* A Shutdown is called, and returns, in this step.
ShutdownStep == ops' = ops + 1 /\ cpc' = cpc /\ ret'.op = "Shutdown"

\* A Command is called in this step.
CommandStarts == ops' = ops + 1 /\ ~ShutdownStep

\* A Command that was past its init returns in this step.
CommandEnds == \E p \in Procs : cpc[p] = "rlock" /\ cpc'[p] = "idle"

\* C13: once Shutdown has been called, every Command returns a failed
\* command with errShutdown, on a machine that was initialised and on one
\* that never was, and it starts no container and runs nothing on the host.
C13_CommandAfterShutdownFails ==
    /\ [][done => done']_vars
    /\ [][(done /\ (CommandStarts \/ CommandEnds)) =>
            /\ ret'.op = "Command"
            /\ ret'.val = "machine shut down"
            /\ \A p \in Procs : cpc[p] = "idle" => cpc'[p] = "idle"
            /\ calls' = calls
            /\ UNCHANGED <<Machine, once, hash, ctlOnce, ctrcli>>]_vars

C13_Witness ==
    /\ done
    /\ Machine = "nil" /\ once = "none"
    /\ calls = <<>>
    /\ ops = 2
    /\ ret = Result("Command", Words(<<"true">>), errShutdown)

\* h is text without the white space at its two ends.
IsTrimmed(h, text) ==
    \E i \in 0..Len(text) : \E j \in i..Len(text) :
        /\ h = SubSeq(text, i + 1, j)
        /\ \A k \in 1..i : text[k] \in {"CR", "LF", "SP", "TAB"}
        /\ \A k \in (j + 1)..Len(text) : text[k] \in {"CR", "LF", "SP", "TAB"}
        /\ h # <<>> => /\ h[1] \notin {"CR", "LF", "SP", "TAB"}
                       /\ h[Len(h)] \notin {"CR", "LF", "SP", "TAB"}

\* C14: after a first Command has started the container, Shutdown runs on
\* the host 'container rm -f <id>', with the selected CLI before it and
\* <id> the output of the container start command without the white space
\* around it, and returns the result of that command.
C14_ShutdownRemovesContainer ==
    [][(ShutdownStep /\ once = "nil") =>
          \E k \in 1..Len(calls) :
              LET rm == calls'[Len(calls')]
                  id == rm.args[Len(rm.args)]
              IN /\ calls[k].args = clis[ctrcli] \o RunArgs(name)
                 /\ calls[k].res = "ok"
                 /\ calls' = Append(calls, rm)
                 /\ rm.args = clis[ctrcli]
                                \o Words(<<"container", "rm", "-f">>) \o <<id>>
                 /\ IsTrimmed(id, calls[k].out)
                 /\ ret'.val = (IF rm.res = "ok" THEN "nil" ELSE rm.res)]_vars

C14_Witness ==
    /\ ret = Result("Shutdown", <<>>, "nil")
    /\ once = "nil"
    /\ ctrcli = 2
    /\ Len(calls) = 5
    /\ calls[3].args = Words(<<"podman", "container", "run", "--rm", "-d",
                               "-i", "alpine", "cat">>)
    /\ calls[3].out = <<"x", "LF">>
    /\ calls[4].args = Words(<<"podman", "container", "exec", "-i", "x",
                               "true">>)
    /\ calls[5].args = Words(<<"podman", "container", "rm", "-f", "x">>)

\* The version probes in the order of the CLIs.
ExpectedProbes ==
    <<Words(<<"docker", "--version">>), Words(<<"podman", "--version">>),
      Words(<<"nerdctl", "--version">>),
      Words(<<"lima", "nerdctl", "--version">>)>>

\* The number of probes made when the probing is done.
ProbesMade == IF ctrcli = 0 THEN 4 ELSE ctrcli

\* C15: the Ctl machine probes docker, podman, nerdctl, lima nerdctl in
\* this order with '<cli> --version', selects the first whose probe is not
\* command-not-found and probes none after it; every command is given to
\* the host with the selected CLI before it; the probing is done once.
C15_CtlSelectsFirstCliFound ==
    /\ [](ctlOnce = "none" => calls = <<>>)
    /\ [](ctlOnce # "none" =>
            /\ Len(calls) >= ProbesMade
            /\ \A i \in 1..ProbesMade :
                  /\ calls[i].args = ExpectedProbes[i]
                  /\ calls[i].res = "notfound" <=> i # ctrcli
            /\ \A i \in (ProbesMade + 1)..Len(calls) :
                  /\ ctrcli # 0
                  /\ \E arg \in Args :
                        calls[i].args
                            = SubSeq(ExpectedProbes[ctrcli], 1,
                                     Len(ExpectedProbes[ctrcli]) - 1) \o arg)
    /\ [][ops' = ops + 1 =>
            /\ ctlOnce # "none" =>
                  /\ ctlOnce' = ctlOnce /\ ctrcli' = ctrcli
                  /\ Len(calls') <= Len(calls) + 1
            /\ ctlOnce' = "ok" =>
                  LET fwd == calls'[Len(calls')]
                  IN /\ Len(calls') = Len(calls) + 1
                                        + (IF ctlOnce = "none" THEN ctrcli' ELSE 0)
                     /\ fwd.args
                          = SubSeq(ExpectedProbes[ctrcli'], 1,
                                   Len(ExpectedProbes[ctrcli']) - 1) \o ret'.arg
                     /\ ret'.val = fwd.res]_vars

C15_Witness ==
    /\ ctlOnce = "ok" /\ ctrcli = 2
    /\ Len(calls) = 4
    /\ calls[1] = Call(Words(<<"docker", "--version">>), "notfound", <<>>)
    /\ calls[2] = Call(Words(<<"podman", "--version">>), "fail", <<>>)
    /\ calls[3].args = Words(<<"podman", "container", "run", "alpine">>)
    /\ calls[4].args = Words(<<"podman", "true">>)

\* Every CLI has been probed and every probe reported command-not-found.
NoCliFound ==
    /\ Len(calls) >= 4
    /\ \A i \in 1..4 :
          calls[i].args = ExpectedProbes[i] /\ calls[i].res = "notfound"

\* C16: when the probe of every CLI reports command-not-found, every
\* Command on the Ctl machine returns a failed command whose error is 'no
\* container CLI found', and the host is given nothing but the probes.
C16_NoCliFoundFailsEveryCommand ==
    NoCliFound =>
        /\ Len(calls) = 4
        /\ ret.op = "Ctl"
        /\ ret.val = "no container CLI found"

C16_Witness ==
    /\ NoCliFound
    /\ ops = 3
    /\ ret = Result("Ctl", Words(<<"container", "run", "alpine">>), errNoCLI)

\* C19: Shutdown runs a command on the host only if this machine started a
\* container: on a machine never used and on one whose init failed it
\* returns nil and the host is given nothing.
C19_ShutdownOnlyRemovesStartedContainer ==
    [][(ShutdownStep /\ once # "nil") =>
          (calls' = calls /\ ret'.val = "nil")]_vars
====
